---- MODULE Spec2Model ----
(***************************************************************************)
(* Flow-control subsystem of vocal-stack: ConversationStateMachine,        *)
(* StallDetector, FillerInjector, BufferManager, and the two orchestrators *)
(* FlowManager (event form) and FlowController (stream form).              *)
(*                                                                         *)
(* Objects are records of their fields; a method is an operator from the   *)
(* object (and its arguments) to a result record                           *)
(*     [self |-> object after the call, error |-> what it threw,           *)
(*      events |-> listener / callback invocations it made, in order].     *)
(* A JavaScript `T | null` field is a sequence of length 0 (null) or 1.    *)
(***************************************************************************)
EXTENDS Integers, Sequences, FiniteSets, TLC

VARIABLES
    machine,        \* a stand-alone ConversationStateMachine
    attempts,       \* the calls made on it: transition() with [from, to, error,
                    \* calls], onStateChange() and unsubscribe handles
    bufferManager,  \* a stand-alone BufferManager
    added,          \* the calls made on it: add(chunk) and clear()
    fillerInjector, \* a stand-alone FillerInjector
    returned,       \* the calls made on it: getFiller() with its value, reset()
    detector,       \* a stand-alone StallDetector
    now,            \* Date.now()
    form,           \* which orchestrator the program instantiated
    fm,             \* the FlowManager
    fc,             \* the FlowController
    iters,          \* the wrap() generators created on fc, in creation order
    emitted,        \* events / callbacks delivered by the last operation
    heard,          \* the calls of FlowManager listeners it made, in order
    raised,         \* the error the last operation threw ("none" if none)
    lastOp          \* the last operation performed on the orchestrator

varsSM   == <<machine, attempts>>
varsBuf  == <<bufferManager, added>>
varsFI   == <<fillerInjector, returned>>
varsSD   == <<detector>>
varsFlow == <<now, form, fm, fc, iters, emitted, heard, raised, lastOp>>
vars     == <<machine, attempts, bufferManager, added, fillerInjector, returned,
              detector, now, form, fm, fc, iters, emitted, heard, raised,
              lastOp>>

----------------------------------------------------------------------------
(* Bounds of the model *)

MaxAttempts == 4   \* transition() calls on the stand-alone state machine
MaxCapacity == 3   \* largest capacity of the stand-alone buffer
MaxAdds     == 6   \* add() and clear() calls on the stand-alone buffer
MaxCalls    == 6   \* getFiller() and reset() calls on the stand-alone injector
MaxLimit    == 3   \* largest maxFillers of the stand-alone injector
MaxTime     == 3   \* last instant of the clock
MaxTimeSD   == 6   \* last instant of the clock of the stand-alone detector
MaxChunks   == 2   \* units accepted in one session

Chunks == {"a", "b"}

Null == <<>>
Some(v) == <<v>>
Min(a, b) == IF a < b THEN a ELSE b

NoError == "none"
Result(o, err, evs) == [self |-> o, error |-> err, events |-> evs]

----------------------------------------------------------------------------
(* types.ts: enum ConversationState *)

IDLE        == "idle"
WAITING     == "waiting"
SPEAKING    == "speaking"
INTERRUPTED == "interrupted"
ConversationState == {IDLE, WAITING, SPEAKING, INTERRUPTED}

----------------------------------------------------------------------------
(* state-machine.ts *)

VALID_TRANSITIONS ==
    [s \in ConversationState |->
        CASE s = IDLE        -> <<SPEAKING, WAITING>>
          [] s = WAITING     -> <<SPEAKING, IDLE, INTERRUPTED>>
          [] s = SPEAKING    -> <<INTERRUPTED, IDLE>>
          [] s = INTERRUPTED -> <<IDLE, WAITING>>]

includes(arr, x) == \E i \in 1..Len(arr) : arr[i] = x

NewStateMachine == [currentState |-> IDLE, listeners |-> <<>>]

getState(sm) == sm.currentState

\* mutant: the table is not consulted, every target is accepted
transition_unchecked(sm, to) ==
    Result([sm EXCEPT !.currentState = to], NoError,
           [i \in 1..Len(sm.listeners) |->
               [listener |-> sm.listeners[i], from |-> sm.currentState, to |-> to]])

\* a listener that throws when it is called
throws(l) == l = "bad"

\* transition(to): throws on a pair outside the table, otherwise assigns the
\* state and calls the listeners with (from, to), in the order of the Set,
\* until one of them throws: its exception leaves the loop and transition()
transition(sm, to) ==
    IF ~includes(VALID_TRANSITIONS[sm.currentState], to)
    THEN Result(sm, "InvalidTransition", <<>>)
    ELSE LET calls == [i \in 1..Len(sm.listeners) |->
                         [listener |-> sm.listeners[i],
                          from |-> sm.currentState, to |-> to]]
             thrown == {i \in 1..Len(sm.listeners) : throws(sm.listeners[i])}
             first == CHOOSE i \in thrown : \A j \in thrown : i <= j
         IN  IF thrown = {}
             THEN Result([sm EXCEPT !.currentState = to], NoError, calls)
             ELSE Result([sm EXCEPT !.currentState = to], "ListenerError",
                         SubSeq(calls, 1, first))

\* onStateChange(listener): Set.add keeps insertion order and ignores duplicates
onStateChange(sm, l) ==
    IF includes(sm.listeners, l) THEN sm
    ELSE [sm EXCEPT !.listeners = Append(@, l)]

\* the unsubscribe closure returned by onStateChange
unsubscribe(sm, l) ==
    [sm EXCEPT !.listeners = SelectSeq(@, LAMBDA x : x # l)]

----------------------------------------------------------------------------
(* buffer-manager.ts *)

NewBufferManager(maxSize) ==
    [buffer |-> <<>>, maxSize |-> maxSize, head |-> 0, size |-> 0]

\* mutant: the write position is not advanced after an overwrite
add_headStuck(b, chunk) ==
    IF b.size < b.maxSize
    THEN [b EXCEPT !.buffer = Append(@, chunk), !.size = @ + 1]
    ELSE [b EXCEPT !.buffer[b.head + 1] = chunk]

\* add(chunk); buffer[head] of the source is buffer[head + 1] here
add(b, chunk) ==
    IF b.size < b.maxSize
    THEN [b EXCEPT !.buffer = Append(@, chunk), !.size = @ + 1]
    ELSE [b EXCEPT !.buffer[b.head + 1] = chunk,
                   !.head = (b.head + 1) % b.maxSize]

\* getAll(): slice(head) followed by slice(0, head)
getAll(b) ==
    IF b.size < b.maxSize
    THEN b.buffer
    ELSE SubSeq(b.buffer, b.head + 1, Len(b.buffer)) \o SubSeq(b.buffer, 1, b.head)

clear(b) == [b EXCEPT !.buffer = <<>>, !.head = 0, !.size = 0]

getSize(b) == b.size

----------------------------------------------------------------------------
(* filler-injector.ts *)

NewFillerInjector(phrases, maxFillers) ==
    [phrases |-> phrases, maxFillers |-> maxFillers,
     fillersUsed |-> 0, lastFillerIndex |-> -1]

\* phrases[i] ?? null, for the index the rotation computed (phrases[NaN] is
\* undefined)
phraseAt(phrases, i) ==
    IF i >= 0 /\ i < Len(phrases) THEN Some(phrases[i + 1]) ELSE Null

\* (lastFillerIndex + 1) % phrases.length; NaN (written -2) for an empty list
rotate(f) ==
    IF Len(f.phrases) = 0 THEN -2 ELSE (f.lastFillerIndex + 1) % Len(f.phrases)

\* mutant: the limit is tested with > instead of >=
getFiller_offByOne(f) ==
    IF f.fillersUsed > f.maxFillers
    THEN [self |-> f, value |-> Null]
    ELSE [self  |-> [f EXCEPT !.lastFillerIndex = rotate(f), !.fillersUsed = @ + 1],
          value |-> phraseAt(f.phrases, rotate(f))]

\* mutant: the limit is not tested at all
getFiller_noLimit(f) ==
    [self  |-> [f EXCEPT !.lastFillerIndex = rotate(f), !.fillersUsed = @ + 1],
     value |-> phraseAt(f.phrases, rotate(f))]

\* getFiller(): [self, value], value the phrase or null
getFiller(f) ==
    IF f.fillersUsed >= f.maxFillers
    THEN [self |-> f, value |-> Null]
    ELSE [self  |-> [f EXCEPT !.lastFillerIndex = rotate(f), !.fillersUsed = @ + 1],
          value |-> phraseAt(f.phrases, rotate(f))]

resetFiller(f) == [f EXCEPT !.fillersUsed = 0, !.lastFillerIndex = -1]

----------------------------------------------------------------------------
(* stall-detector.ts *)

NewStallDetector(thresholdMs) ==
    [lastChunkTime |-> Null, stallTimer |-> Null, thresholdMs |-> thresholdMs,
     orphans |-> {}]

\* a timeout whose callback the event loop may still run
timerPending(d) == d.stallTimer # Null /\ d.stallTimer[1].pending

\* clearTimer(): clearTimeout on the handle, then forget it
clearTimer(d) == [d EXCEPT !.stallTimer = Null]

\* this.stallTimer = setTimeout(callback, thresholdMs): the handle records
\* when the timeout is due and whether its callback is still to run; a
\* timeout still pending whose handle the assignment overwrites stays in the
\* event loop with no handle to it (orphans holds when such timeouts are due)
setTimeout(d) ==
    [d EXCEPT
        !.orphans = IF timerPending(d) THEN @ \cup {d.stallTimer[1].due} ELSE @,
        !.stallTimer = Some([due |-> now + d.thresholdMs, pending |-> TRUE])]

\* mutant: the previous timeout is not cleared before a new one is set
scheduleStallCheck_noClear(d) == setTimeout(d)

scheduleStallCheck(d) == setTimeout(clearTimer(d))

notifyChunk(d) ==
    scheduleStallCheck(clearTimer([d EXCEPT !.lastChunkTime = Some(now)]))

StallDetector_start(d) ==
    scheduleStallCheck([d EXCEPT !.lastChunkTime = Some(now)])

\* mutant: stop() forgets the activity time but leaves the timeout armed
StallDetector_stop_keepsTimer(d) == [d EXCEPT !.lastChunkTime = Null]

\* mutant: stop() does nothing
StallDetector_stop_nothing(d) == d

StallDetector_stop(d) == [clearTimer(d) EXCEPT !.lastChunkTime = Null]

\* the timeout has run: the handle stays in the field but is spent
timerSpent(d) ==
    IF d.stallTimer = Null THEN d
    ELSE [d EXCEPT !.stallTimer = Some([@[1] EXCEPT !.pending = FALSE])]

----------------------------------------------------------------------------
(* Orchestrator configurations (FlowManagerConfig / FlowConfig after the     *)
(* constructor filled in its defaults); times are in clock ticks.           *)

Config(threshold, phrases, enable, maxFillers, bufferSize) ==
    [stallThresholdMs |-> threshold, fillerPhrases |-> phrases,
     enableFillers |-> enable, maxFillersPerResponse |-> maxFillers,
     bufferSize |-> bufferSize]

Configs ==
    { Config(2, <<"um", "hmm">>, TRUE, 2, 2),
      Config(2, <<"um">>, TRUE, 1, 2),
      Config(3, <<"um", "hmm">>, FALSE, 2, 1),
      Config(3, <<"um">>, TRUE, 0, 1) }

NewStats ==
    [fillersInjected |-> 0, stallsDetected |-> 0, chunksProcessed |-> 0,
     firstChunkTime |-> Null, totalDurationMs |-> 0]

\* the events a listener registered with on() is called with
Event(type) == [type |-> type]
StateChange(calls) ==
    [i \in 1..Len(calls) |->
        [type |-> "state-change", from |-> calls[i].from, to |-> calls[i].to]]

----------------------------------------------------------------------------
(* flow-manager.ts *)

NewFlowManager(config) ==
    [config |-> config,
     stateMachine |-> NewStateMachine,
     fillerInjector |-> NewFillerInjector(config.fillerPhrases,
                                          config.maxFillersPerResponse),
     bufferManager |-> NewBufferManager(config.bufferSize),
     stallDetector |-> NewStallDetector(config.stallThresholdMs),
     firstChunkEmitted |-> FALSE,
     stats |-> NewStats,
     startTime |-> Null,
     stateChangeUnsubscribe |-> Null,
     listeners |-> <<>>]

\* on(listener): listeners is a Set, iterated in insertion order
on(o, listener) ==
    IF includes(o.listeners, listener) THEN o
    ELSE [o EXCEPT !.listeners = Append(@, listener)]

\* the function on(listener) returned
off(o, listener) ==
    [o EXCEPT !.listeners = SelectSeq(@, LAMBDA l : l # listener)]

\* mutant: the listeners are called without try/catch
emit_noCatch(o, event) ==
    LET calls == [i \in 1..Len(o.listeners) |->
                    [listener |-> o.listeners[i], event |-> event]]
        thrown == {i \in 1..Len(o.listeners) : throws(o.listeners[i])}
        first == CHOOSE i \in thrown : \A j \in thrown : i <= j
    IN  IF thrown = {} THEN Result(o, NoError, calls)
        ELSE Result(o, "ListenerError", SubSeq(calls, 1, first))

\* private emit(event): every listener is called, each inside its own
\* try/catch that logs the exception to console.error
emit(o, event) ==
    Result(o, NoError,
           [i \in 1..Len(o.listeners) |->
               [listener |-> o.listeners[i], event |-> event]])

RECURSIVE emitAll(_, _)
\* the emit() calls one method makes, in order; an emit() that threw would
\* end the method
emitAll(o, events) ==
    IF events = <<>> THEN Result(o, NoError, <<>>)
    ELSE LET e == emit(o, Head(events))
             rest == emitAll(o, Tail(events))
         IN  IF e.error # NoError THEN e
             ELSE Result(o, rest.error, e.events \o rest.events)

\* private reset(), the same in both orchestrators
reset(o) ==
    [o EXCEPT !.firstChunkEmitted = FALSE,
              !.fillerInjector = resetFiller(@),
              !.bufferManager = clear(@),
              !.stats = NewStats]

\* start() subscribes a new arrow function each time; the names tell the
\* functions subscribed at the same time apart
EmitClosures == <<"emit", "emit2", "emit3">>
newClosure(sm) ==
    LET free == {k \in 1..Len(EmitClosures) : ~includes(sm.listeners, EmitClosures[k])}
    IN  IF free = {} THEN EmitClosures[Len(EmitClosures)]
        ELSE EmitClosures[CHOOSE k \in free : \A j \in free : k <= j]

\* mutant: a second start() is accepted and restarts the session
FlowManager_start_restarts(o) ==
    LET o1 == [reset(o) EXCEPT !.startTime = Some(now),
                               !.stateMachine.currentState = IDLE]
        t  == transition(o1.stateMachine, WAITING)
    IN  Result([o1 EXCEPT !.stateMachine = onStateChange(t.self, "emit"),
                          !.stallDetector = StallDetector_start(@),
                          !.stateChangeUnsubscribe = Some("emit")],
               NoError, StateChange(t.events))

FlowManager_start(o) ==
    IF o.startTime # Null
    THEN Result(o, "AlreadyStarted", <<>>)
    ELSE LET o1 == [reset(o) EXCEPT !.startTime = Some(now)]
             t  == transition(o1.stateMachine, WAITING)
         IN  IF t.error # NoError
             THEN Result(o1, t.error, <<>>)
             ELSE Result([o1 EXCEPT !.stateMachine =
                                        onStateChange(t.self, newClosure(t.self)),
                                    !.stallDetector = StallDetector_start(@),
                                    !.stateChangeUnsubscribe =
                                        Some(newClosure(t.self))],
                         NoError, StateChange(t.events))

\* mutant: a unit is taken although no session is active
FlowManager_processChunk_noStartCheck(o, chunk) ==
    IF getState(o.stateMachine) = INTERRUPTED
    THEN Result(o, NoError, <<>>)
    ELSE LET o1 == [o EXCEPT !.stallDetector = notifyChunk(@),
                             !.stats.chunksProcessed = @ + 1,
                             !.bufferManager = add(@, chunk)]
         IN  Result(o1, NoError, <<[type |-> "chunk-processed", chunk |-> chunk]>>)

\* mutant: the interrupted check is missing
FlowManager_processChunk_noInterruptCheck(o, chunk) ==
    IF o.startTime = Null
    THEN Result(o, "NotStarted", <<>>)
    ELSE LET o1 == [o EXCEPT !.stallDetector = notifyChunk(@),
                             !.stats.chunksProcessed = @ + 1,
                             !.bufferManager = add(@, chunk)]
         IN  Result(o1, NoError, <<[type |-> "chunk-processed", chunk |-> chunk]>>)

FlowManager_processChunk(o, chunk) ==
    IF o.startTime = Null
    THEN Result(o, "NotStarted", <<>>)
    ELSE IF getState(o.stateMachine) = INTERRUPTED
    THEN Result(o, NoError, <<>>)
    ELSE LET o1 == [o EXCEPT !.stallDetector = notifyChunk(@),
                             !.stats.chunksProcessed = @ + 1,
                             !.bufferManager = add(@, chunk)]
         IN  IF ~o1.firstChunkEmitted
             THEN LET o2 == [o1 EXCEPT !.firstChunkEmitted = TRUE,
                                       !.stats.firstChunkTime =
                                            Some(now - o1.startTime[1])]
                      t  == transition(o2.stateMachine, SPEAKING)
                  IN  IF t.error # NoError
                      THEN Result(o2, t.error, <<>>)
                      ELSE Result([o2 EXCEPT !.stateMachine = t.self], NoError,
                                  StateChange(t.events)
                                  \o <<[type |-> "first-chunk", chunk |-> chunk],
                                       [type |-> "chunk-processed", chunk |-> chunk]>>)
             ELSE Result(o1, NoError,
                         <<[type |-> "chunk-processed", chunk |-> chunk]>>)

\* mutant: complete() leaves the state-change listener subscribed
completeTail_keepsListener(o, evs) ==
    Result([o EXCEPT !.stateChangeUnsubscribe = Null,
                     !.startTime = Null],
           NoError,
           evs \o <<[type |-> "completed", stats |-> o.stats]>>)

\* mutant: 'completed' is emitted before the duration is set and the
\* transition made
completeTail_earlyEvent(o, evs) ==
    Result([o EXCEPT !.stateMachine =
                        IF o.stateChangeUnsubscribe # Null
                        THEN unsubscribe(@, o.stateChangeUnsubscribe[1]) ELSE @,
                     !.stateChangeUnsubscribe = Null,
                     !.startTime = Null],
           NoError,
           <<[type |-> "completed",
              stats |-> [o.stats EXCEPT !.totalDurationMs = 0]]>> \o evs)

\* the tail of complete(): emit 'completed', unsubscribe, end the session
completeTail(o, evs) ==
    Result([o EXCEPT !.stateMachine =
                        IF o.stateChangeUnsubscribe # Null
                        THEN unsubscribe(@, o.stateChangeUnsubscribe[1]) ELSE @,
                     !.stateChangeUnsubscribe = Null,
                     !.startTime = Null],
           NoError,
           evs \o <<[type |-> "completed", stats |-> o.stats]>>)

\* mutant: complete() returns to Idle also from Interrupted
FlowManager_complete_alwaysIdle(o) ==
    IF o.startTime = Null
    THEN Result(o, "NotStarted", <<>>)
    ELSE LET o1 == [o EXCEPT !.stallDetector = StallDetector_stop(@),
                             !.stats.totalDurationMs = now - o.startTime[1]]
             t == transition(o1.stateMachine, IDLE)
         IN  completeTail([o1 EXCEPT !.stateMachine = t.self],
                          StateChange(t.events))

\* mutant: complete() does not stop the stall detector
FlowManager_complete_noStop(o) ==
    IF o.startTime = Null
    THEN Result(o, "NotStarted", <<>>)
    ELSE LET o1 == [o EXCEPT !.stats.totalDurationMs = now - o.startTime[1]]
         IN  IF getState(o1.stateMachine) # INTERRUPTED
             THEN LET t == transition(o1.stateMachine, IDLE)
                  IN  IF t.error # NoError
                      THEN Result(o1, t.error, <<>>)
                      ELSE completeTail([o1 EXCEPT !.stateMachine = t.self],
                                        StateChange(t.events))
             ELSE completeTail(o1, <<>>)

\* mutant: complete() makes no transition
FlowManager_complete_keepsState(o) ==
    IF o.startTime = Null
    THEN Result(o, "NotStarted", <<>>)
    ELSE LET o1 == [o EXCEPT !.stallDetector = StallDetector_stop(@),
                             !.stats.totalDurationMs = now - o.startTime[1]]
         IN  completeTail(o1, <<>>)

FlowManager_complete(o) ==
    IF o.startTime = Null
    THEN Result(o, "NotStarted", <<>>)
    ELSE LET o1 == [o EXCEPT !.stallDetector = StallDetector_stop(@),
                             !.stats.totalDurationMs = now - o.startTime[1]]
         IN  IF getState(o1.stateMachine) # INTERRUPTED
             THEN LET t == transition(o1.stateMachine, IDLE)
                  IN  IF t.error # NoError
                      THEN Result(o1, t.error, <<>>)
                      ELSE completeTail([o1 EXCEPT !.stateMachine = t.self],
                                        StateChange(t.events))
             ELSE completeTail(o1, <<>>)

\* mutant: interrupt() leaves the buffer as it is
FlowManager_interrupt_keepsBuffer(o) ==
    IF getState(o.stateMachine) \in {SPEAKING, WAITING}
    THEN LET t == transition(o.stateMachine, INTERRUPTED)
         IN  Result([o EXCEPT !.stateMachine = t.self,
                              !.stallDetector = StallDetector_stop(@),
                              !.fillerInjector = resetFiller(@)],
                    NoError, StateChange(t.events) \o <<Event("interrupted")>>)
    ELSE Result(o, NoError, <<>>)

\* mutant: the state is not looked at before interrupting
FlowManager_interrupt_unguarded(o) ==
    LET t == transition(o.stateMachine, INTERRUPTED)
    IN  IF t.error # NoError
        THEN Result(o, t.error, <<>>)
        ELSE Result([o EXCEPT !.stateMachine = t.self,
                              !.stallDetector = StallDetector_stop(@),
                              !.fillerInjector = resetFiller(@),
                              !.bufferManager = clear(@)],
                    NoError,
                    StateChange(t.events) \o <<Event("interrupted")>>)

\* mutant: interrupt() ends the session
FlowManager_interrupt_endsSession(o) ==
    IF getState(o.stateMachine) \in {SPEAKING, WAITING}
    THEN LET t == transition(o.stateMachine, INTERRUPTED)
         IN  IF t.error # NoError
             THEN Result(o, t.error, <<>>)
             ELSE Result([o EXCEPT !.stateMachine = t.self,
                                   !.stallDetector = StallDetector_stop(@),
                                   !.fillerInjector = resetFiller(@),
                                   !.bufferManager = clear(@),
                                   !.startTime = Null],
                         NoError,
                         StateChange(t.events) \o <<Event("interrupted")>>)
    ELSE Result(o, NoError, <<>>)

\* mutant: interrupt() zeroes the stats
FlowManager_interrupt_resetsStats(o) ==
    IF getState(o.stateMachine) \in {SPEAKING, WAITING}
    THEN LET t == transition(o.stateMachine, INTERRUPTED)
         IN  IF t.error # NoError
             THEN Result(o, t.error, <<>>)
             ELSE Result([o EXCEPT !.stateMachine = t.self,
                                   !.stallDetector = StallDetector_stop(@),
                                   !.fillerInjector = resetFiller(@),
                                   !.bufferManager = clear(@),
                                   !.stats = NewStats],
                         NoError,
                         StateChange(t.events) \o <<Event("interrupted")>>)
    ELSE Result(o, NoError, <<>>)

FlowManager_interrupt(o) ==
    IF getState(o.stateMachine) \in {SPEAKING, WAITING}
    THEN LET t == transition(o.stateMachine, INTERRUPTED)
         IN  IF t.error # NoError
             THEN Result(o, t.error, <<>>)
             ELSE Result([o EXCEPT !.stateMachine = t.self,
                                   !.stallDetector = StallDetector_stop(@),
                                   !.fillerInjector = resetFiller(@),
                                   !.bufferManager = clear(@)],
                         NoError,
                         StateChange(t.events) \o <<Event("interrupted")>>)
    ELSE Result(o, NoError, <<>>)

\* `if (filler)`: neither null nor the empty string
truthy(filler) == filler # Null /\ filler[1] # ""

\* mutant: the first-chunk guard is missing
FlowManager_handleStall_noFirstChunkGuard(o, durationMs) ==
    LET o1 == [o EXCEPT !.stats.stallsDetected = @ + 1]
        stall == <<[type |-> "stall-detected", durationMs |-> durationMs,
                    observed |-> o1.stats]>>
    IN  IF o1.config.enableFillers
           /\ getState(o1.stateMachine) # INTERRUPTED
        THEN LET g == getFiller(o1.fillerInjector)
                 o2 == [o1 EXCEPT !.fillerInjector = g.self]
             IN  IF truthy(g.value)
                 THEN Result([o2 EXCEPT !.stats.fillersInjected = @ + 1], NoError,
                             stall \o <<[type |-> "filler-injected",
                                         filler |-> g.value[1],
                                         observed |->
                                            [o2.stats EXCEPT
                                                !.fillersInjected = @ + 1]]>>)
                 ELSE Result(o2, NoError, stall)
        ELSE Result(o1, NoError, stall)

\* mutant: the filler is written to the buffer
FlowManager_handleStall_buffersFiller(o, durationMs) ==
    LET o1 == [o EXCEPT !.stats.stallsDetected = @ + 1]
        stall == <<[type |-> "stall-detected", durationMs |-> durationMs,
                    observed |-> o1.stats]>>
    IN  IF o1.config.enableFillers
           /\ ~o1.firstChunkEmitted
           /\ getState(o1.stateMachine) # INTERRUPTED
        THEN LET g == getFiller(o1.fillerInjector)
                 o2 == [o1 EXCEPT !.fillerInjector = g.self]
             IN  IF truthy(g.value)
                 THEN Result([o2 EXCEPT !.stats.fillersInjected = @ + 1,
                                        !.bufferManager = add(@, g.value[1])],
                             NoError,
                             stall \o <<[type |-> "filler-injected",
                                         filler |-> g.value[1],
                                         observed |->
                                            [o2.stats EXCEPT
                                                !.fillersInjected = @ + 1]]>>)
                 ELSE Result(o2, NoError, stall)
        ELSE Result(o1, NoError, stall)

\* the stall is counted and emitted first, then the filler; `observed` is
\* what getStats() returns while the listeners run
FlowManager_handleStall(o, durationMs) ==
    LET o1 == [o EXCEPT !.stats.stallsDetected = @ + 1]
        stall == <<[type |-> "stall-detected", durationMs |-> durationMs,
                    observed |-> o1.stats]>>
    IN  IF o1.config.enableFillers
           /\ ~o1.firstChunkEmitted
           /\ getState(o1.stateMachine) # INTERRUPTED
        THEN LET g == getFiller(o1.fillerInjector)
                 o2 == [o1 EXCEPT !.fillerInjector = g.self]
             IN  IF truthy(g.value)
                 THEN Result([o2 EXCEPT !.stats.fillersInjected = @ + 1], NoError,
                             stall \o <<[type |-> "filler-injected",
                                         filler |-> g.value[1],
                                         observed |->
                                            [o2.stats EXCEPT
                                                !.fillersInjected = @ + 1]]>>)
                 ELSE Result(o2, NoError, stall)
        ELSE Result(o1, NoError, stall)

getStats(o) == o.stats
getBufferedChunks(o) == getAll(o.bufferManager)

----------------------------------------------------------------------------
(* flow-controller.ts *)

NewFlowController(config) ==
    [config |-> config,
     stateMachine |-> NewStateMachine,
     fillerInjector |-> NewFillerInjector(config.fillerPhrases,
                                          config.maxFillersPerResponse),
     bufferManager |-> NewBufferManager(10),
     stallDetector |-> NewStallDetector(config.stallThresholdMs),
     firstChunkEmitted |-> FALSE,
     stats |-> NewStats,
     startTime |-> Null]

\* a step of the wrap() generator: Result plus how the step left the
\* generator ("await": at the for-await, "yield": at the yield with a unit,
\* "return": finished, "throw": finished with the error)
Step(o, err, evs, next, out) ==
    [self |-> o, error |-> err, events |-> evs, next |-> next, out |-> out]

\* the finally block of wrap()
\* mutant: the finally block leaves the detector running
wrapFinally_noStop(o) ==
    [o EXCEPT !.stats.totalDurationMs =
                    now - (IF o.startTime # Null THEN o.startTime[1] ELSE now)]

wrapFinally(o) ==
    [o EXCEPT !.stallDetector = StallDetector_stop(@),
              !.stats.totalDurationMs =
                    now - (IF o.startTime # Null THEN o.startTime[1] ELSE now)]

\* the catch block: whatever the try block threw is rethrown wrapped
wrapCatch(o, evs) ==
    Step(wrapFinally(o), "StreamProcessingError", evs, "throw", Null)

\* wrap() up to the for-await: the first next() on the generator
wrapBegin(o) ==
    LET o1 == [reset(o) EXCEPT !.startTime = Some(now)]
        t  == transition(o1.stateMachine, WAITING)
    IN  IF t.error # NoError
        THEN Step(o1, t.error, <<>>, "throw", Null)
        ELSE Step([o1 EXCEPT !.stateMachine = t.self,
                             !.stallDetector = StallDetector_start(@)],
                  NoError, <<>>, "await", Null)

\* after the loop: back to Idle unless interrupted, then the finally block
wrapAfterLoop(o) ==
    IF getState(o.stateMachine) # INTERRUPTED
    THEN LET t == transition(o.stateMachine, IDLE)
         IN  IF t.error # NoError
             THEN wrapCatch(o, <<>>)
             ELSE Step(wrapFinally([o EXCEPT !.stateMachine = t.self]),
                       NoError, <<>>, "return", Null)
    ELSE Step(wrapFinally(o), NoError, <<>>, "return", Null)

\* mutant: the loop does not look at the state before taking a unit
wrapChunk_noInterruptCheck(o, chunk) ==
    LET o1 == [o EXCEPT !.stallDetector = notifyChunk(@),
                        !.stats.chunksProcessed = @ + 1,
                        !.bufferManager = add(@, chunk)]
    IN  Step([o1 EXCEPT !.firstChunkEmitted = TRUE], NoError, <<>>,
             "yield", Some(chunk))

\* one turn of the loop body, for the unit the input produced
wrapChunk(o, chunk) ==
    IF getState(o.stateMachine) = INTERRUPTED
    THEN wrapAfterLoop(o)
    ELSE LET o1 == [o EXCEPT !.stallDetector = notifyChunk(@),
                             !.stats.chunksProcessed = @ + 1,
                             !.bufferManager = add(@, chunk)]
         IN  IF ~o1.firstChunkEmitted
             THEN LET o2 == [o1 EXCEPT
                               !.firstChunkEmitted = TRUE,
                               !.stats.firstChunkTime =
                                  Some(now - (IF o1.startTime # Null
                                              THEN o1.startTime[1] ELSE now))]
                      t  == transition(o2.stateMachine, SPEAKING)
                  IN  IF t.error # NoError
                      THEN wrapCatch(o2, <<>>)
                      ELSE Step([o2 EXCEPT !.stateMachine = t.self], NoError,
                                <<Event("onFirstChunk")>>, "yield", Some(chunk))
             ELSE Step(o1, NoError, <<>>, "yield", Some(chunk))

\* the input sequence is exhausted
wrapEnd(o) == wrapAfterLoop(o)

\* the input sequence throws
wrapInputError(o) == wrapCatch(o, <<>>)

\* the consumer leaves its loop: return() on the generator suspended at yield
wrapReturn(o) == Step(wrapFinally(o), NoError, <<>>, "return", Null)

FlowController_interrupt(o) ==
    IF getState(o.stateMachine) \in {SPEAKING, WAITING}
    THEN LET t == transition(o.stateMachine, INTERRUPTED)
         IN  IF t.error # NoError
             THEN Result(o, t.error, <<>>)
             ELSE Result([o EXCEPT !.stateMachine = t.self,
                                   !.stallDetector = StallDetector_stop(@),
                                   !.fillerInjector = resetFiller(@),
                                   !.bufferManager = clear(@)],
                         NoError, <<>>)
    ELSE Result(o, NoError, <<>>)

\* the filler is counted and handed to onFillerInjected first, then the
\* stall is counted and handed to onStallDetected; `observed` is what
\* getStats() returns while the callback runs
FlowController_handleStall(o, durationMs) ==
    LET stall(stats) == <<[type |-> "onStallDetected", durationMs |-> durationMs,
                           observed |-> stats]>>
        counted(o1) == [o1 EXCEPT !.stats.stallsDetected = @ + 1]
    IN  IF o.config.enableFillers
           /\ ~o.firstChunkEmitted
           /\ getState(o.stateMachine) # INTERRUPTED
        THEN LET g == getFiller(o.fillerInjector)
                 o1 == [o EXCEPT !.fillerInjector = g.self]
                 o2 == [o1 EXCEPT !.stats.fillersInjected = @ + 1]
             IN  IF truthy(g.value)
                 THEN Result(counted(o2), NoError,
                             <<[type |-> "onFillerInjected",
                                filler |-> g.value[1],
                                observed |-> o2.stats]>>
                                \o stall(counted(o2).stats))
                 ELSE Result(counted(o1), NoError, stall(counted(o1).stats))
        ELSE Result(counted(o), NoError, stall(counted(o).stats))

----------------------------------------------------------------------------
(* stall-detector.ts: the timeout callback *)

\* the owner of a stand-alone detector: the detector and the function it
\* was constructed with, which records its argument and returns or throws
Harness(d, callback) == [stallDetector |-> d, callback |-> callback]
Callbacks == {"returns", "throws"}

callback(o, durationMs) ==
    Result(o, IF o.callback = "throws" THEN "CallbackError" ELSE NoError,
           <<[type |-> "onStall", durationMs |-> durationMs]>>)

\* this.onStall: the function the detector was constructed with; for an
\* orchestrator o its handleStall, bound to it
onStall(o, durationMs) ==
    IF "callback" \in DOMAIN o
    THEN callback(o, durationMs)
    ELSE IF "stateChangeUnsubscribe" \in DOMAIN o
    THEN FlowManager_handleStall(o, durationMs)
    ELSE FlowController_handleStall(o, durationMs)

\* mutant: the callback does not compare the elapsed time with the threshold
stallCheck_noThreshold(o) ==
    LET o0 == [o EXCEPT !.stallDetector = timerSpent(@)]
        d  == o0.stallDetector
    IN  IF d.lastChunkTime = Null
        THEN Result(o0, NoError, <<>>)
        ELSE LET r == onStall(o0, now - d.lastChunkTime[1])
             IN  IF r.error # NoError
                 THEN r
                 ELSE [r EXCEPT !.self.stallDetector = scheduleStallCheck(@)]

\* the setTimeout callback of scheduleStallCheck, run on the orchestrator o
\* that owns the detector
stallCheck(o) ==
    LET o0 == [o EXCEPT !.stallDetector = timerSpent(@)]
        d  == o0.stallDetector
    IN  IF d.lastChunkTime = Null
        THEN Result(o0, NoError, <<>>)
        ELSE LET elapsed == now - d.lastChunkTime[1]
             IN  IF elapsed >= d.thresholdMs
                 THEN LET r == onStall(o0, elapsed)
                      IN  IF r.error # NoError
                          THEN r
                          ELSE [r EXCEPT !.self.stallDetector = scheduleStallCheck(@)]
                 ELSE Result(o0, NoError, <<>>)

----------------------------------------------------------------------------
(* The stand-alone components, each driven by every sequence of its calls *)

\* the wrap() generators of the controller that are suspended at one time:
\* an iteration and one that overlaps it; a finished generator leaves its
\* place to the next wrap()
Generators == 1..2
NoIters ==
    [i \in Generators |-> [pc |-> "done", interrupted |-> FALSE, fillers |-> 0]]

PhraseLists == { <<>>, <<"um">>, <<"um", "hmm">>, <<"um", "hmm", "uh">> }

InitSM  == machine = NewStateMachine /\ attempts = <<>>
InitBuf == /\ bufferManager \in {NewBufferManager(c) : c \in 1..MaxCapacity}
           /\ added = <<>>
InitFI  == /\ fillerInjector \in
                {NewFillerInjector(p, m) : p \in PhraseLists, m \in 0..MaxLimit}
           /\ returned = <<>>

\* the parts of the state a specification does not exercise
RestSM   == machine = NewStateMachine /\ attempts = <<>>
RestBuf  == bufferManager = NewBufferManager(1) /\ added = <<>>
RestFI   == fillerInjector = NewFillerInjector(<<"um">>, 1) /\ returned = <<>>
RestSD   == detector = NewStallDetector(2)
RestFlow == /\ now = 0 /\ form = "none"
            /\ fm = NewFlowManager(Config(2, <<"um">>, TRUE, 1, 1))
            /\ fc = NewFlowController(Config(2, <<"um">>, TRUE, 1, 1))
            /\ iters = NoIters /\ emitted = <<>> /\ heard = <<>>
            /\ raised = NoError
            /\ lastOp = [op |-> "new"]

\* machine.transition(to)
Transition(to) ==
    /\ Len(attempts) < MaxAttempts
    /\ LET r == transition(machine, to)
       IN  /\ machine' = r.self
           /\ attempts' = Append(attempts, [call |-> "transition",
                                            from |-> machine.currentState,
                                            to |-> to, error |-> r.error,
                                            calls |-> r.events])
    /\ UNCHANGED <<varsBuf, varsFI, varsSD, varsFlow>>

\* machine.reset(): back to Idle, the history starts again
ResetMachine ==
    /\ attempts # <<>>
    /\ machine' = [machine EXCEPT !.currentState = IDLE]
    /\ attempts' = <<>>
    /\ UNCHANGED <<varsBuf, varsFI, varsSD, varsFlow>>

NextSM == (\E to \in ConversationState : Transition(to)) \/ ResetMachine

\* the functions subscribed to the stand-alone machine
SMListeners == {"l1", "l2", "bad"}

\* machine.onStateChange(l)
OnStateChange(l) ==
    /\ Len(attempts) < MaxAttempts
    /\ machine' = onStateChange(machine, l)
    /\ attempts' = Append(attempts, [call |-> "onStateChange", listener |-> l])
    /\ UNCHANGED <<varsBuf, varsFI, varsSD, varsFlow>>

\* the handle onStateChange(l) returned is called
Unsubscribe(l) ==
    /\ Len(attempts) < MaxAttempts
    /\ \E i \in 1..Len(attempts) :
          attempts[i].call = "onStateChange" /\ attempts[i].listener = l
    /\ machine' = unsubscribe(machine, l)
    /\ attempts' = Append(attempts, [call |-> "unsubscribe", listener |-> l])
    /\ UNCHANGED <<varsBuf, varsFI, varsSD, varsFlow>>

\* the machine with its listeners
NextSML ==
    \/ \E to \in ConversationState : Transition(to)
    \/ \E l \in SMListeners : OnStateChange(l) \/ Unsubscribe(l)

\* bufferManager.add(chunk)
Add(chunk) ==
    /\ Len(added) < MaxAdds
    /\ bufferManager' = add(bufferManager, chunk)
    /\ added' = Append(added, [call |-> "add", chunk |-> chunk])
    /\ UNCHANGED <<varsSM, varsFI, varsSD, varsFlow>>

\* bufferManager.clear()
Clear ==
    /\ Len(added) < MaxAdds
    /\ bufferManager' = clear(bufferManager)
    /\ added' = Append(added, [call |-> "clear"])
    /\ UNCHANGED <<varsSM, varsFI, varsSD, varsFlow>>

NextBuf == (\E c \in Chunks : Add(c)) \/ Clear

\* fillerInjector.getFiller()
GetFiller ==
    /\ Len(returned) < MaxCalls
    /\ LET g == getFiller(fillerInjector)
       IN  /\ fillerInjector' = g.self
           /\ returned' = Append(returned, [call |-> "getFiller", value |-> g.value])
    /\ UNCHANGED <<varsSM, varsBuf, varsSD, varsFlow>>

\* fillerInjector.reset()
ResetInjector ==
    /\ Len(returned) < MaxCalls
    /\ fillerInjector' = resetFiller(fillerInjector)
    /\ returned' = Append(returned, [call |-> "reset"])
    /\ UNCHANGED <<varsSM, varsBuf, varsSD, varsFlow>>

NextFI == GetFiller \/ ResetInjector

InitSpecSM  == InitSM /\ RestBuf /\ RestFI /\ RestSD /\ RestFlow
InitSpecBuf == InitBuf /\ RestSM /\ RestFI /\ RestSD /\ RestFlow
InitSpecFI  == InitFI /\ RestSM /\ RestBuf /\ RestSD /\ RestFlow

SpecSM  == InitSpecSM /\ [][NextSM]_vars
SpecSML == InitSpecSM /\ [][NextSML]_vars
SpecBuf == InitSpecBuf /\ [][NextBuf]_vars
SpecFI  == InitSpecFI /\ [][NextFI]_vars

----------------------------------------------------------------------------
(* The stand-alone StallDetector: its three calls, its timeout and the     *)
(* clock, in every interleaving. lastOp also remembers the last call made  *)
(* on the detector, the time of that call and how often the callback was   *)
(* invoked since.                                                          *)

Thresholds == {2, 3}

InitSD == detector \in {NewStallDetector(t) : t \in Thresholds}

InitSpecSD ==
    /\ InitSD /\ RestSM /\ RestBuf /\ RestFI
    /\ now = 0 /\ form = "none"
    /\ fm = NewFlowManager(Config(2, <<"um">>, TRUE, 1, 1))
    /\ fc = NewFlowController(Config(2, <<"um">>, TRUE, 1, 1))
    /\ iters = NoIters /\ emitted = <<>> /\ heard = <<>>
    /\ raised = NoError
    /\ lastOp = [op |-> "new", call |-> "new", at |-> 0, stalls |-> 0]

\* a timeout that is due and whose callback the event loop has not run yet
overdue(d) == timerPending(d) /\ d.stallTimer[1].due <= now

\* the event loop may run the callback of a pending timeout once it is due;
\* Date.now() may then still read one tick less than the due time
timerDue(d) == timerPending(d) /\ now + 1 >= d.stallTimer[1].due

\* something happened on the stand-alone detector
SDStep(d, evs, err, op) ==
    /\ detector' = d
    /\ emitted' = evs /\ heard' = <<>>
    /\ raised' = err
    /\ lastOp' = op
    /\ UNCHANGED <<now, form, fm, fc, iters, varsSM, varsBuf, varsFI>>

\* a call of the detector's interface, made now
SDCall(d, call) ==
    SDStep(d, <<>>, NoError,
           [op |-> call, call |-> call, at |-> now, stalls |-> 0])

SDStart ==
    /\ form = "none"
    /\ SDCall(StallDetector_start(detector), "start")

SDNotifyChunk ==
    /\ form = "none"
    /\ SDCall(notifyChunk(detector), "notifyChunk")

SDStop ==
    /\ form = "none"
    /\ SDCall(StallDetector_stop(detector), "stop")

\* the event loop runs the timeout's callback
SDTimer ==
    /\ timerDue(detector)
    /\ \E cb \in Callbacks :
          LET r == stallCheck(Harness(detector, cb))
          IN  SDStep(r.self.stallDetector, r.events, r.error,
                     [lastOp EXCEPT !.op = "timer",
                                    !.stalls = @ + Len(r.events)])

\* the clock advances; the event loop runs the callbacks of due timeouts
\* before the next instant
SDTick ==
    /\ ~overdue(detector)
    /\ now < MaxTimeSD
    /\ now' = now + 1
    /\ emitted' = <<>> /\ heard' = <<>> /\ raised' = NoError
    /\ lastOp' = [lastOp EXCEPT !.op = "tick"]
    /\ UNCHANGED <<detector, form, fm, fc, iters, varsSM, varsBuf, varsFI>>

NextSD == SDStart \/ SDNotifyChunk \/ SDStop \/ SDTimer \/ SDTick

SpecSD == InitSpecSD /\ [][NextSD]_vars

\* the clock keeps advancing and the event loop keeps running due timeouts
SpecSDLive == SpecSD /\ WF_vars(SDTick) /\ WF_vars(SDTimer)

----------------------------------------------------------------------------
(* The orchestrators: the caller's calls, the input sequence, the consumer  *)
(* of wrap(), the stall timer and the clock, in every interleaving         *)

Init ==
    /\ RestSM /\ RestBuf /\ RestFI /\ RestSD
    /\ now = 0
    /\ form \in {"manager", "controller"}
    /\ \E config \in Configs :
          fm = NewFlowManager(config) /\ fc = NewFlowController(config)
    /\ iters = NoIters
    /\ emitted = <<>> /\ heard = <<>>
    /\ raised = NoError
    /\ lastOp = [op |-> "new"]

\* the orchestrator the program drives
Orch == IF form = "manager" THEN fm ELSE fc

\* generator i is suspended: at the for-await, or at a yield its consumer
\* will leave by asking for the next unit (which changes nothing by itself)
suspended(i) == iters[i].pc \in {"awaiting", "yielded"}

\* a session is running: only then is the clock read
running ==
    \/ form = "manager"
       /\ (fm.startTime # Null \/ timerPending(fm.stallDetector))
    \/ form = "controller"
       /\ ((\E i \in Generators : suspended(i)) \/ timerPending(fc.stallDetector))

\* the clock advances; the event loop runs the callbacks of due timeouts
\* before the next instant
Tick ==
    /\ running
    /\ ~overdue(Orch.stallDetector)
    /\ now < MaxTime
    /\ now' = now + 1
    /\ emitted' = <<>> /\ heard' = <<>> /\ raised' = NoError
    /\ lastOp' = [op |-> "tick"]
    /\ UNCHANGED <<form, fm, fc, iters, varsSM, varsBuf, varsFI, varsSD>>

\* a call on the FlowManager returned (or threw) r, having called emit()
\* with r.events
FMCall(r, op) ==
    /\ form = "manager"
    /\ fm' = r.self
    /\ emitted' = r.events
    /\ LET e == emitAll(fm, r.events)
       IN  /\ heard' = e.events
           /\ raised' = IF e.error # NoError THEN e.error ELSE r.error
    /\ lastOp' = op
    /\ UNCHANGED <<now, form, fc, iters, varsSM, varsBuf, varsFI, varsSD>>

FMStart ==
    /\ form = "manager"
    /\ FMCall(FlowManager_start(fm), [op |-> "start"])

FMProcessChunk(chunk) ==
    /\ fm.stats.chunksProcessed < MaxChunks
    /\ FMCall(FlowManager_processChunk(fm, chunk),
              [op |-> "processChunk", chunk |-> chunk])

FMComplete ==
    /\ form = "manager"
    /\ FMCall(FlowManager_complete(fm), [op |-> "complete"])

FMInterrupt ==
    /\ form = "manager"
    /\ FMCall(FlowManager_interrupt(fm), [op |-> "interrupt"])

FMTimer ==
    /\ timerDue(fm.stallDetector)
    /\ FMCall(stallCheck(fm), [op |-> "timer"])

NextFM ==
    \/ FMStart
    \/ \E chunk \in Chunks : FMProcessChunk(chunk)
    \/ FMComplete
    \/ FMInterrupt
    \/ FMTimer

\* the generator's position after a step: suspended before its first unit
\* ("awaiting"), suspended at the yield of a unit ("yielded"), or finished
PcAfter(next) ==
    CASE next = "await" -> "awaiting"
      [] next = "yield" -> "yielded"
      [] OTHER          -> "done"

NewIter(r) == [pc |-> PcAfter(r.next), interrupted |-> FALSE, fillers |-> 0]

\* the step yields one of the configured filler phrases
yieldsFiller(r) ==
    /\ r.out # Null
    /\ includes(r.self.config.fillerPhrases, r.out[1])

\* a finished generator vacates its place; a running one has yielded
\* `fillers` filler phrases so far
IterAfter(it, r) ==
    IF PcAfter(r.next) = "done"
    THEN [pc |-> "done", interrupted |-> FALSE, fillers |-> 0]
    ELSE [it EXCEPT !.pc = PcAfter(r.next),
                    !.fillers = IF yieldsFiller(r) THEN @ + 1 ELSE @]

\* what the consumer of generator i receives from the step: the unit yielded
Yield(i, r) ==
    IF r.out # Null
    THEN <<[type |-> "yield", iter |-> i, chunk |-> r.out[1]]>>
    ELSE <<>>

\* something happened on the FlowController: r is the outcome, its the
\* generators afterwards, out what the step hands to the generator's consumer
FCCall(r, its, out, op) ==
    /\ form = "controller"
    /\ fc' = r.self
    /\ iters' = its
    /\ emitted' = r.events \o out /\ heard' = <<>>
    /\ raised' = r.error
    /\ lastOp' = op
    /\ UNCHANGED <<now, form, fm, varsSM, varsBuf, varsFI, varsSD>>

\* controller.wrap(input) and the consumer's first next()
FCWrap ==
    /\ \E i \in Generators : ~suspended(i)
    /\ LET i == CHOOSE k \in Generators :
                    ~suspended(k) /\ \A j \in 1..(k - 1) : suspended(j)
           r == wrapBegin(fc)
       IN  FCCall(r, [iters EXCEPT ![i] = NewIter(r)], <<>>,
                  [op |-> "wrap", iter |-> i])

\* (the consumer of generator i asks for the next unit and) its input
\* produces a unit
FCInput(i, chunk) ==
    /\ suspended(i)
    /\ fc.stats.chunksProcessed < MaxChunks
    /\ LET r == wrapChunk(fc, chunk)
       IN  FCCall(r, [iters EXCEPT ![i] = IterAfter(@, r)], Yield(i, r),
                  [op |-> "input", iter |-> i, chunk |-> chunk])

\* (the consumer asks for the next unit and) the input of generator i is
\* exhausted
FCInputEnd(i) ==
    /\ suspended(i)
    /\ LET r == wrapEnd(fc)
       IN  FCCall(r, [iters EXCEPT ![i] = IterAfter(@, r)], <<>>,
                  [op |-> "inputEnd", iter |-> i])

\* (the consumer asks for the next unit and) the input of generator i throws
FCInputError(i) ==
    /\ suspended(i)
    /\ LET r == wrapInputError(fc)
       IN  FCCall(r, [iters EXCEPT ![i] = IterAfter(@, r)], <<>>,
                  [op |-> "inputError", iter |-> i])

\* the consumer of generator i abandons the iteration: return() on the
\* generator suspended at a yield
FCReturn(i) ==
    /\ iters[i].pc = "yielded"
    /\ LET r == wrapReturn(fc)
       IN  FCCall(r, [iters EXCEPT ![i] = IterAfter(@, r)], <<>>,
                  [op |-> "return", iter |-> i])

\* controller.interrupt(); each running generator notes that an interrupt
\* took effect during its iteration
FCInterrupt ==
    /\ form = "controller"
    /\ LET r == FlowController_interrupt(fc)
           took == getState(fc.stateMachine) # getState(r.self.stateMachine)
       IN  FCCall(r,
               [i \in Generators |->
                   IF took /\ suspended(i)
                   THEN [iters[i] EXCEPT !.interrupted = TRUE]
                   ELSE iters[i]],
               <<>>, [op |-> "interrupt"])

FCTimer ==
    /\ timerDue(fc.stallDetector)
    /\ FCCall(stallCheck(fc), iters, <<>>,
              [op |-> "timer"])

NextFC ==
    \/ FCWrap
    \/ \E i \in Generators :
          \/ \E chunk \in Chunks : FCInput(i, chunk)
          \/ FCInputEnd(i)
          \/ FCInputError(i)
          \/ FCReturn(i)
    \/ FCInterrupt
    \/ FCTimer

Next == Tick \/ NextFM \/ NextFC

\* either orchestrator
Spec == Init /\ [][Next]_vars

\* the FlowManager alone
InitFM == Init /\ form = "manager"
NextManager == Tick \/ NextFM
SpecFM == InitFM /\ [][NextManager]_vars

\* the functions registered with the FlowManager
FMListeners == {"l1", "bad"}

\* manager.on(l)
FMOn(l) ==
    /\ form = "manager"
    /\ ~includes(fm.listeners, l)
    /\ fm' = on(fm, l)
    /\ emitted' = <<>> /\ heard' = <<>> /\ raised' = NoError
    /\ lastOp' = [op |-> "on", listener |-> l]
    /\ UNCHANGED <<now, form, fc, iters, varsSM, varsBuf, varsFI, varsSD>>

\* the function manager.on(l) returned is called
FMOff(l) ==
    /\ form = "manager"
    /\ includes(fm.listeners, l)
    /\ fm' = off(fm, l)
    /\ emitted' = <<>> /\ heard' = <<>> /\ raised' = NoError
    /\ lastOp' = [op |-> "off", listener |-> l]
    /\ UNCHANGED <<now, form, fc, iters, varsSM, varsBuf, varsFI, varsSD>>

\* the FlowManager with its event listeners
NextManagerL ==
    \/ NextManager
    \/ \E l \in FMListeners : FMOn(l) \/ FMOff(l)
SpecFML == InitFM /\ [][NextManagerL]_vars

\* the FlowController alone
InitFC == Init /\ form = "controller"
NextController == Tick \/ NextFC
SpecFC == InitFC /\ [][NextController]_vars

\* Both orchestrators constructed with the same configuration (the
\* FlowManager with the buffer size the FlowController always has) and given
\* the same input units, timer firings and interrupts at the same times: one
\* wrap() iteration at a time next to start(), processChunk() per unit and
\* complete()
InitBoth ==
    /\ RestSM /\ RestBuf /\ RestFI /\ RestSD
    /\ now = 0
    /\ form = "both"
    /\ \E config \in Configs :
          /\ fm = NewFlowManager([config EXCEPT !.bufferSize = 10])
          /\ fc = NewFlowController(config)
    /\ iters = NoIters
    /\ emitted = <<>> /\ heard = <<>>
    /\ raised = NoError
    /\ lastOp = [op |-> "new"]
InitSpecBoth == InitBoth

\* r1 is what the call on the FlowManager did, r2 what the step of the
\* generator (or the call on the FlowController) did
BothCall(r1, r2, its, out, op) ==
    /\ form = "both"
    /\ fm' = r1.self
    /\ fc' = r2.self
    /\ iters' = its
    /\ emitted' = r1.events \o r2.events \o out
    /\ heard' = emitAll(fm, r1.events).events
    /\ raised' = IF r1.error # NoError THEN r1.error ELSE r2.error
    /\ lastOp' = op
    /\ UNCHANGED <<now, form, varsSM, varsBuf, varsFI, varsSD>>

\* manager.start(); controller.wrap(input) and the first next()
BothStart ==
    /\ form = "both"
    /\ fm.startTime = Null /\ ~suspended(1)
    /\ LET r == wrapBegin(fc)
       IN  BothCall(FlowManager_start(fm), r, [iters EXCEPT ![1] = NewIter(r)],
                    <<>>, [op |-> "start"])

\* the input produces a unit: manager.processChunk(chunk), and the
\* generator, if it has not finished, takes the unit
BothChunk(chunk) ==
    /\ form = "both"
    /\ fm.startTime # Null
    /\ fm.stats.chunksProcessed < MaxChunks
    /\ LET r == IF suspended(1) THEN wrapChunk(fc, chunk)
                ELSE Step(fc, NoError, <<>>, "return", Null)
       IN  BothCall(FlowManager_processChunk(fm, chunk), r,
                    [iters EXCEPT ![1] = IterAfter(@, r)], Yield(1, r),
                    [op |-> "processChunk", chunk |-> chunk])

\* the input is exhausted: manager.complete(), and the generator, if it has
\* not finished, leaves its loop
BothEnd ==
    /\ form = "both"
    /\ fm.startTime # Null
    /\ LET r == IF suspended(1) THEN wrapEnd(fc)
                ELSE Step(fc, NoError, <<>>, "return", Null)
       IN  BothCall(FlowManager_complete(fm), r,
                    [iters EXCEPT ![1] = IterAfter(@, r)], <<>>,
                    [op |-> "complete"])

\* manager.interrupt() and controller.interrupt()
BothInterrupt ==
    /\ form = "both"
    /\ LET r == FlowController_interrupt(fc)
           took == getState(fc.stateMachine) # getState(r.self.stateMachine)
       IN  BothCall(FlowManager_interrupt(fm), r,
                    [i \in Generators |->
                        IF took /\ suspended(i)
                        THEN [iters[i] EXCEPT !.interrupted = TRUE]
                        ELSE iters[i]],
                    <<>>, [op |-> "interrupt"])

\* the stall timers of both fire
BothTimer ==
    /\ form = "both"
    /\ timerDue(fm.stallDetector) /\ timerDue(fc.stallDetector)
    /\ BothCall(stallCheck(fm), stallCheck(fc), iters, <<>>, [op |-> "timer"])

\* the clock advances
BothTick ==
    /\ form = "both"
    /\ \/ fm.startTime # Null \/ suspended(1)
       \/ timerPending(fm.stallDetector) \/ timerPending(fc.stallDetector)
    /\ ~overdue(fm.stallDetector) /\ ~overdue(fc.stallDetector)
    /\ now < MaxTime
    /\ now' = now + 1
    /\ emitted' = <<>> /\ heard' = <<>> /\ raised' = NoError
    /\ lastOp' = [op |-> "tick"]
    /\ UNCHANGED <<form, fm, fc, iters, varsSM, varsBuf, varsFI, varsSD>>

NextBoth ==
    \/ BothStart
    \/ \E chunk \in Chunks : BothChunk(chunk)
    \/ BothEnd
    \/ BothInterrupt
    \/ BothTimer
    \/ BothTick

SpecBoth == InitSpecBoth /\ [][NextBoth]_vars

\* a configuration with fillers enabled and nothing to say
EmptyPhrases == Config(2, <<>>, TRUE, 1, 1)

\* the orchestrators constructed with { fillerPhrases: [] }: the constructors
\* store the list as given
InitEmpty ==
    /\ RestSM /\ RestBuf /\ RestFI /\ RestSD
    /\ now = 0
    /\ form \in {"manager", "controller"}
    /\ fm = NewFlowManager(EmptyPhrases) /\ fc = NewFlowController(EmptyPhrases)
    /\ iters = NoIters
    /\ emitted = <<>> /\ heard = <<>>
    /\ raised = NoError
    /\ lastOp = [op |-> "new"]
InitSpecEmpty == InitEmpty
SpecEmpty == InitSpecEmpty /\ [][Next]_vars

----------------------------------------------------------------------------
(* Properties *)

State == getState(Orch.stateMachine)

\* the events of the given types among those the last operation delivered
Delivered(types) == SelectSeq(emitted, LAMBDA e : e.type \in types)

\* the transition table as the specification states it
TransitionTable ==
    { <<IDLE, SPEAKING>>, <<IDLE, WAITING>>,
      <<WAITING, SPEAKING>>, <<WAITING, IDLE>>, <<WAITING, INTERRUPTED>>,
      <<SPEAKING, INTERRUPTED>>, <<SPEAKING, IDLE>>,
      <<INTERRUPTED, IDLE>>, <<INTERRUPTED, WAITING>> }

RECURSIVE LastTarget(_)
\* the target of the last successful attempt of a history, Idle if none
LastTarget(log) ==
    IF log = <<>> THEN IDLE
    ELSE IF log[Len(log)].error = NoError THEN log[Len(log)].to
    ELSE LastTarget(SubSeq(log, 1, Len(log) - 1))

\* C1: an attempt succeeds exactly when (current, to) is in the table; a
\* failed attempt raises an invalid-transition error and leaves the state
\* unchanged; the current state is the target of the last successful attempt
\* (Idle if there is none).
C1_TransitionTable ==
    /\ \A i \in 1..Len(attempts) :
          /\ attempts[i].from = LastTarget(SubSeq(attempts, 1, i - 1))
          /\ (attempts[i].error = NoError)
                <=> (<<attempts[i].from, attempts[i].to>> \in TransitionTable)
          /\ attempts[i].error \in {NoError, "InvalidTransition"}
    /\ getState(machine) = LastTarget(attempts)

\* a failed attempt followed by a successful one
C1_Witness ==
    \E i, j \in 1..Len(attempts) :
        /\ i < j
        /\ attempts[i].error = "InvalidTransition"
        /\ attempts[j].error = NoError

\* the index of the last call named c among the first n calls of a history
\* (0 if there is none)
LastCall(log, c, n) ==
    IF \E m \in 1..n : log[m].call = c
    THEN CHOOSE m \in 1..n :
            log[m].call = c /\ \A j \in (m + 1)..n : log[j].call # c
    ELSE 0

\* the items added since the most recent clear(), oldest first
AddedSinceClear ==
    LET from == LastCall(added, "clear", Len(added))
    IN  [i \in 1..(Len(added) - from) |-> added[from + i].chunk]

\* C5: getAll() is the last min(n, C) items added since the last clear(),
\* oldest first, and getSize() is min(n, C), never above C.
C5_BufferWindow ==
    LET items == AddedSinceClear
        n == Len(items)
        k == Min(n, bufferManager.maxSize)
    IN  /\ getAll(bufferManager) = SubSeq(items, n - k + 1, n)
        /\ getSize(bufferManager) = k
        /\ getSize(bufferManager) <= bufferManager.maxSize

\* after a clear() of a wrapped buffer, the buffer has wrapped again and
\* its write position is inside the array
C5_Witness ==
    /\ LastCall(added, "clear", Len(added)) > bufferManager.maxSize
    /\ Len(AddedSinceClear) > bufferManager.maxSize
    /\ bufferManager.head # 0
    /\ \E i, j \in 1..Len(getAll(bufferManager)) :
          getAll(bufferManager)[i] # getAll(bufferManager)[j]

\* C6: with a non-empty phrase list of length L and limit M, the k-th
\* getFiller() since construction or the last reset() returns
\* phrases[(k-1) mod L] for k <= M and null for k > M; reset() restarts the
\* rotation at phrases[0] with the full limit.
C6_Rotation ==
    LET L == Len(fillerInjector.phrases)
        M == fillerInjector.maxFillers
    IN  L > 0 =>
          \A n \in 1..Len(returned) :
             returned[n].call = "getFiller" =>
                LET k == n - LastCall(returned, "reset", n)
                IN  returned[n].value =
                       IF k <= M
                       THEN Some(fillerInjector.phrases[((k - 1) % L) + 1])
                       ELSE Null

\* the limit was exhausted, and after a reset() the rotation has wrapped
\* around from phrases[0]
C6_Witness ==
    LET r == LastCall(returned, "reset", Len(returned))
        L == Len(fillerInjector.phrases)
    IN  /\ L > 0
        /\ r > 1
        /\ returned[r - 1].call = "getFiller"
        /\ returned[r - 1].value = Null
        /\ Len(returned) - r > L
        /\ returned[r + 1].value = Some(fillerInjector.phrases[1])
        /\ returned[Len(returned)].value = Some(fillerInjector.phrases[1])

\* a first real unit has been processed in the running session: the
\* FlowManager has counted a unit since start(), or every suspended wrap()
\* generator has yielded one
FirstUnitProcessed ==
    IF form = "manager"
    THEN fm.startTime # Null /\ fm.stats.chunksProcessed >= 1
    ELSE /\ \E i \in Generators : iters[i].pc = "yielded"
         /\ \A i \in Generators : iters[i].pc \in {"yielded", "done"}

\* C2: once the first real unit of a session has been processed, no filler
\* is injected for the rest of that session (fillersInjected stays constant,
\* no filler-injected event or callback), however many stalls fire; those
\* stalls are still counted in stallsDetected.
C2_StallSuppression ==
    [][(FirstUnitProcessed /\ lastOp'.op = "timer") =>
          /\ Orch'.stats.fillersInjected = Orch.stats.fillersInjected
          /\ Delivered({"filler-injected", "onFillerInjected"})' = <<>>
          /\ (Delivered({"stall-detected", "onStallDetected"})' # <<>> =>
                Orch'.stats.stallsDetected = Orch.stats.stallsDetected + 1)]_vars

\* C3: after interrupt() in Waiting or Speaking the FlowManager is
\* Interrupted with an empty buffer, and stays so under every later
\* processChunk, interrupt, timer firing and complete() of that session.
C3_InterruptSticks ==
    [][form = "manager" =>
          /\ (lastOp'.op = "interrupt" /\ getState(fm.stateMachine) \in {WAITING, SPEAKING}
                => /\ getState(fm'.stateMachine) = INTERRUPTED
                   /\ getBufferedChunks(fm') = <<>>)
          /\ (getState(fm.stateMachine) = INTERRUPTED /\ lastOp'.op # "start"
                => /\ getState(fm'.stateMachine) = INTERRUPTED
                   /\ getBufferedChunks(fm') = <<>>
                   /\ raised' \in {NoError, "NotStarted"})]_vars

\* complete() has returned on a session that took a unit and was interrupted
C3_Witness ==
    /\ form = "manager"
    /\ lastOp.op = "complete" /\ raised = NoError
    /\ getState(fm.stateMachine) = INTERRUPTED
    /\ fm.stats.chunksProcessed >= 1
    /\ getBufferedChunks(fm) = <<>>

\* C4: once interrupt() has taken effect during an iteration of wrap(), that
\* iteration yields no further unit, it ends when its next input unit is
\* observed, and the state is then Interrupted with an empty buffer.
C4_InterruptTruncates ==
    [][form = "controller" =>
          \A i \in Generators :
             iters[i].interrupted =>
                /\ \A k \in 1..Len(emitted') :
                      ~(emitted'[k].type = "yield" /\ emitted'[k].iter = i)
                /\ (lastOp'.op = "input" /\ lastOp'.iter = i =>
                      /\ iters'[i].pc = "done"
                      /\ raised' = NoError
                      /\ getState(fc'.stateMachine) = INTERRUPTED
                      /\ getBufferedChunks(fc') = <<>>)]_vars

C8_Start ==
    [][lastOp'.op = "start" =>
          IF fm.startTime # Null
          THEN raised' = "AlreadyStarted" /\ fm' = fm /\ emitted' = <<>>
          ELSE /\ raised' = NoError
               /\ fm'.startTime = Some(now)
               /\ fm'.stats = NewStats
               /\ getBufferedChunks(fm') = <<>>
               /\ fm'.fillerInjector = resetFiller(fm.fillerInjector)
               /\ fm'.fillerInjector.fillersUsed = 0
               /\ ~fm'.firstChunkEmitted
               /\ getState(fm'.stateMachine) = WAITING
               /\ timerPending(fm'.stallDetector)
               /\ fm'.stallDetector.lastChunkTime = Some(now)]_vars

\* start() has just failed on a session that had taken a unit and a filler
C8_Witness ==
    /\ lastOp.op = "start" /\ raised = "AlreadyStarted"
    /\ fm.stats.chunksProcessed >= 1
    /\ fm.stats.fillersInjected >= 1
    /\ getBufferedChunks(fm) # <<>>

\* C9: processChunk() and complete() without an active session fail with
\* not-started, emit no event and leave state, stats and buffer unchanged.
C9_NotStarted ==
    [][(lastOp'.op \in {"processChunk", "complete"} /\ fm.startTime = Null) =>
          raised' = "NotStarted" /\ emitted' = <<>> /\ fm' = fm]_vars

\* processChunk() has just failed after a session was completed
C9_Witness ==
    /\ lastOp.op = "processChunk" /\ raised = "NotStarted"
    /\ fm.startTime = Null
    /\ fm.stats.chunksProcessed >= 1
    /\ getState(fm.stateMachine) = IDLE

\* C10: processChunk() in state Interrupted of an active session is dropped:
\* no error, no event, stats, buffer and stall detector unchanged.
C10_DroppedWhenInterrupted ==
    [][( /\ lastOp'.op = "processChunk"
         /\ fm.startTime # Null
         /\ getState(fm.stateMachine) = INTERRUPTED ) =>
          /\ raised' = NoError
          /\ emitted' = <<>>
          /\ fm'.stats = fm.stats
          /\ fm'.bufferManager = fm.bufferManager
          /\ fm'.stallDetector = fm.stallDetector
          /\ ~timerPending(fm'.stallDetector)
          /\ fm' = fm]_vars

\* a unit has just been offered to an interrupted, still active session
C10_Witness ==
    /\ form = "manager"
    /\ lastOp.op = "processChunk" /\ raised = NoError
    /\ fm.startTime # Null
    /\ getState(fm.stateMachine) = INTERRUPTED
    /\ fm.stats.chunksProcessed >= 1

\* every event of the first kinds is delivered before every event of the
\* second kinds
Before(first, second, evs) ==
    \A i, j \in 1..Len(evs) :
        (evs[i].type \in first /\ evs[j].type \in second) => i < j

\* the unit the next step offers is the first one of its session: the
\* FlowManager has accepted none since start(), the wrap() generator it is
\* offered to has not yielded yet
FirstOfSession ==
    IF form = "manager"
    THEN fm.stats.chunksProcessed = 0
    ELSE iters[lastOp'.iter].pc = "awaiting"

\* C11: the first accepted unit of a session moves Waiting -> Speaking, sets
\* firstChunkTime and produces exactly one first-unit notification, delivered
\* before the unit itself; no later unit, and no other operation, produces a
\* first-unit notification or a state transition by a unit.
C11_FirstUnitOnce ==
    [][LET notes == Delivered({"first-chunk", "onFirstChunk"})'
           units == Delivered({"chunk-processed", "yield"})'
       IN  IF lastOp'.op \in {"processChunk", "input"}
           THEN IF units # <<>> /\ FirstOfSession
                THEN /\ State = WAITING /\ State' = SPEAKING
                     /\ Orch'.stats.firstChunkTime = Some(now - Orch.startTime[1])
                     /\ Len(notes) = 1 /\ Len(units) = 1
                     /\ Before({"first-chunk", "onFirstChunk"},
                               {"chunk-processed", "yield"}, emitted')
                ELSE /\ notes = <<>>
                     /\ State' = State
                     /\ Delivered({"state-change"})' = <<>>
           ELSE notes = <<>>]_vars

\* C12: in the event form every accepted unit is forwarded by exactly one
\* chunk-processed event carrying that unit, delivered during its
\* processChunk call (hence in call order), no other operation delivers one,
\* and a filler-injected event is delivered only while the session has
\* forwarded no unit yet.
C12_EventOrder ==
    [][form = "manager" =>
          LET units == Delivered({"chunk-processed"})'
              accepted == /\ lastOp'.op = "processChunk"
                          /\ fm.startTime # Null
                          /\ getState(fm.stateMachine) # INTERRUPTED
          IN  /\ units = IF accepted
                         THEN <<[type |-> "chunk-processed", chunk |-> lastOp'.chunk]>>
                         ELSE <<>>
              /\ fm'.stats.chunksProcessed =
                    IF lastOp'.op = "start" /\ raised' = NoError
                    THEN 0
                    ELSE fm.stats.chunksProcessed + Len(units)
              /\ (Delivered({"filler-injected"})' # <<>> =>
                    /\ fm.startTime # Null
                    /\ fm.stats.chunksProcessed = 0
                    /\ units = <<>>)]_vars

\* the second unit of a session has been forwarded, after two stalls of
\* which the first injected a filler
C12_Witness ==
    /\ form = "manager"
    /\ lastOp.op = "processChunk"
    /\ Delivered({"chunk-processed"}) = <<[type |-> "chunk-processed", chunk |-> "b"]>>
    /\ fm.stats.chunksProcessed = 2
    /\ fm.stats.fillersInjected = 1
    /\ fm.stats.stallsDetected >= 2
    /\ getBufferedChunks(fm) = <<"a", "b">>

\* C13: interrupt() in Idle or Interrupted raises nothing, delivers nothing
\* and changes nothing; the interrupted event is delivered only by an
\* interrupt() in Waiting or Speaking, once; an interrupt() right after an
\* interrupt() changes nothing.
C13_InterruptNoOp ==
    [][/\ (lastOp'.op = "interrupt" /\ State \in {IDLE, INTERRUPTED}) =>
             /\ raised' = NoError
             /\ emitted' = <<>>
             /\ Orch' = Orch
             /\ iters' = iters
       /\ Delivered({"interrupted"})' # <<>> =>
             /\ lastOp'.op = "interrupt"
             /\ State \in {WAITING, SPEAKING}
             /\ State' = INTERRUPTED
             /\ Len(Delivered({"interrupted"})') = 1
       /\ (lastOp.op = "interrupt" /\ lastOp'.op = "interrupt") =>
             /\ raised' = NoError
             /\ emitted' = <<>>
             /\ Orch' = Orch]_vars

\* an interrupt() has just been ignored by a FlowManager whose session had
\* taken a unit and been interrupted
C13_Witness ==
    /\ form = "manager"
    /\ lastOp.op = "interrupt" /\ raised = NoError /\ emitted = <<>>
    /\ getState(fm.stateMachine) = INTERRUPTED
    /\ fm.startTime # Null
    /\ fm.stats.chunksProcessed >= 1

\* C14: complete() on an active FlowManager session that is not interrupted
\* succeeds from Waiting and from Speaking: the detector is stopped, the
\* state is Idle and the session is over, so that start() then succeeds and
\* processChunk() and complete() fail with not-started.
C14_Complete ==
    [][/\ ( /\ lastOp'.op = "complete"
            /\ fm.startTime # Null
            /\ getState(fm.stateMachine) # INTERRUPTED ) =>
             /\ raised' = NoError
             /\ getState(fm.stateMachine) \in {WAITING, SPEAKING}
             /\ getState(fm'.stateMachine) = IDLE
             /\ fm'.startTime = Null
             /\ fm'.stallDetector.stallTimer = Null
             /\ fm'.stallDetector.lastChunkTime = Null
             /\ Len(Delivered({"completed"})') = 1
             /\ FlowManager_start(fm').error = NoError
             /\ FlowManager_complete(fm').error = "NotStarted"
             /\ \A c \in Chunks : FlowManager_processChunk(fm', c).error = "NotStarted"
       /\ ( /\ lastOp.op = "complete" /\ raised = NoError
            /\ getState(fm.stateMachine) = IDLE ) =>
             /\ lastOp'.op = "start" =>
                   raised' = NoError /\ getState(fm'.stateMachine) = WAITING
             /\ lastOp'.op \in {"processChunk", "complete"} =>
                   raised' = "NotStarted" /\ fm' = fm
             /\ lastOp'.op # "timer"]_vars

\* complete() has just succeeded on a session that took no unit and in
\* which the stall timer had fired and been re-armed
C14_Witness ==
    /\ form = "manager"
    /\ lastOp.op = "complete" /\ raised = NoError
    /\ getState(fm.stateMachine) = IDLE
    /\ fm.startTime = Null
    /\ fm.stats.chunksProcessed = 0
    /\ fm.stats.stallsDetected >= 1

\* C15: from a stop() until the next start() or notifyChunk() the stall
\* callback is not invoked, whatever the clock and the event loop do; a
\* stop() after a stop(), or before any start(), changes nothing.
C15_StopSilences ==
    [][/\ (lastOp.call = "stop" /\ lastOp'.op \in {"timer", "tick"}) =>
             Delivered({"onStall"})' = <<>>
       /\ (lastOp.call \in {"stop", "new"} /\ lastOp'.op = "stop") =>
             /\ detector' = detector
             /\ raised' = NoError
             /\ emitted' = <<>>]_vars

\* a full threshold has passed since a stop() that followed activity, and
\* the callback has stayed silent
C15_Witness ==
    /\ lastOp.call = "stop" /\ lastOp.op = "tick"
    /\ lastOp.at >= 1
    /\ now - lastOp.at >= detector.thresholdMs
    /\ lastOp.stalls = 0

\* C16: the stall callback is invoked only by the timeout, only when at
\* least the threshold has elapsed since the most recent start() or
\* notifyChunk(), and with that elapsed time as its argument; notifyChunk()
\* replaces the pending check by a fresh one, and no timeout is ever left in
\* the event loop besides the one the detector holds.
C16_ThresholdElapsed ==
    [][/\ Delivered({"onStall"})' # <<>> =>
             /\ lastOp'.op = "timer"
             /\ lastOp.call \in {"start", "notifyChunk"}
             /\ now - lastOp.at >= detector.thresholdMs
             /\ Delivered({"onStall"})' =
                   <<[type |-> "onStall", durationMs |-> now - lastOp.at]>>
       /\ lastOp'.op = "notifyChunk" =>
             /\ detector'.lastChunkTime = Some(now)
             /\ detector'.stallTimer =
                   Some([due |-> now + detector.thresholdMs, pending |-> TRUE])
       /\ detector'.orphans = {}]_vars

\* the callback has just been invoked a second time in the silence after a
\* notifyChunk() that replaced a pending check
C16_Witness ==
    /\ lastOp.op = "timer" /\ lastOp.call = "notifyChunk"
    /\ lastOp.at >= 1
    /\ lastOp.stalls = 2
    /\ Delivered({"onStall"}) # <<>>
    /\ emitted[1].durationMs > detector.thresholdMs

\* a silence began at t0 and the clock can reach its k-th threshold
Silence(t0, k) ==
    /\ lastOp.call \in {"start", "notifyChunk"}
    /\ lastOp.at = t0
    /\ t0 + k * detector.thresholdMs <= MaxTimeSD

\* the silence that began at t0 was reported k times, or a call ended it
Reported(t0, k) ==
    \/ lastOp.call \notin {"start", "notifyChunk"}
    \/ lastOp.at # t0
    \/ lastOp.stalls >= k

\* C17: while the detector runs and neither activity nor stop() occurs, the
\* callback is invoked once per elapsed threshold: k thresholds after the
\* last start() or notifyChunk() it has been invoked k times, unless a call
\* was made on the detector in between.
C17_KeepsReporting ==
    \A t0 \in 0..MaxTimeSD : \A k \in 1..MaxTimeSD :
        Silence(t0, k) ~> Reported(t0, k)

\* C18: when the timeout runs while the measured elapsed time is below the
\* threshold, the callback is not invoked and the detector is armed again,
\* for the remaining time.
C18_RearmsRemaining ==
    [][( /\ lastOp'.op = "timer"
         /\ detector.lastChunkTime # Null
         /\ now - detector.lastChunkTime[1] < detector.thresholdMs ) =>
          /\ Delivered({"onStall"})' = <<>>
          /\ timerPending(detector')
          /\ detector'.stallTimer[1].due =
                detector.lastChunkTime[1] + detector.thresholdMs]_vars

\* C19: when the stall callback throws, the detector is armed again for
\* another threshold.
C19_RearmsAfterThrow ==
    [][(lastOp'.op = "timer" /\ raised' # NoError) =>
          /\ timerPending(detector')
          /\ detector'.stallTimer[1].due = now + detector.thresholdMs]_vars

\* interrupt() or complete() is about to take effect on a running session
\* whose stall timeout is already due
StopsWithTimerDue ==
    /\ timerDue(Orch.stallDetector)
    /\ \/ lastOp'.op = "interrupt" /\ State \in {WAITING, SPEAKING}
       \/ lastOp'.op = "complete" /\ Orch.startTime # Null

\* C20: when interrupt() or complete() takes effect while the stall timeout
\* is already due, the timeout's callback is a no-op afterwards: the event
\* loop no longer runs it, and run on the orchestrator as the call left it,
\* it changes neither stallsDetected nor fillersInjected nor the filler
\* policy, delivers no event and does not arm the detector again.
C20_StaleTimerNoOp ==
    [][StopsWithTimerDue =>
          LET r == stallCheck(Orch')
          IN  /\ raised' = NoError
              /\ ~timerPending(Orch'.stallDetector)
              /\ ~timerDue(Orch'.stallDetector)
              /\ r.error = NoError
              /\ r.events = <<>>
              /\ r.self.stats = Orch'.stats
              /\ r.self.fillerInjector = Orch'.fillerInjector
              /\ ~timerPending(r.self.stallDetector)
              /\ r.self.stallDetector.lastChunkTime = Null]_vars

\* interrupt() has just taken effect on a FlowManager session whose first
\* stall timeout was overdue and had not run
C20_Witness ==
    /\ form = "manager"
    /\ lastOp.op = "interrupt"
    /\ Delivered({"interrupted"}) # <<>>
    /\ fm.startTime # Null
    /\ fm.stats.chunksProcessed = 0
    /\ fm.stats.stallsDetected = 0
    /\ now >= fm.startTime[1] + fm.config.stallThresholdMs
    /\ fm.config.enableFillers

RECURSIVE Subscribed(_, _)
\* the listeners subscribed after the first n calls of a history, in the
\* order of their subscription
Subscribed(log, n) ==
    IF n = 0 THEN <<>>
    ELSE LET before == Subscribed(log, n - 1)
             e == log[n]
         IN  CASE e.call = "onStateChange" ->
                    IF \E k \in 1..Len(before) : before[k] = e.listener
                    THEN before ELSE Append(before, e.listener)
               [] e.call = "unsubscribe" ->
                    SelectSeq(before, LAMBDA x : x # e.listener)
               [] OTHER -> before

\* C21: a successful transition calls every listener subscribed at that
\* time exactly once, in subscription order, with (from, to), before it
\* returns; a failed transition calls none; a listener whose unsubscribe
\* handle was called is not called again.
C21_Notification ==
    \A i \in 1..Len(attempts) :
        attempts[i].call = "transition" =>
           LET e == attempts[i]
               subs == Subscribed(attempts, i - 1)
           IN  IF <<e.from, e.to>> \in TransitionTable
               THEN e.calls = [k \in 1..Len(subs) |->
                                 [listener |-> subs[k], from |-> e.from, to |-> e.to]]
               ELSE e.calls = <<>>

\* C22: a listener that throws during a successful transition stops neither
\* the remaining listeners from being called nor transition() from returning
\* normally.
C22_ListenerIsolation ==
    \A i \in 1..Len(attempts) :
        ( /\ attempts[i].call = "transition"
          /\ <<attempts[i].from, attempts[i].to>> \in TransitionTable
          /\ \E k \in 1..Len(attempts[i].calls) : throws(attempts[i].calls[k].listener) )
        => /\ attempts[i].error = NoError
           /\ \A l \in SMListeners :
                 includes(Subscribed(attempts, i - 1), l) =>
                    \E k \in 1..Len(attempts[i].calls) : attempts[i].calls[k].listener = l

\* the FlowManager without its event listeners
Quiet(o) == [o EXCEPT !.listeners = <<>>]

\* what the operation op does to FlowManager o
FMApply(o, op) ==
    CASE op.op = "start"        -> FlowManager_start(o)
      [] op.op = "processChunk" -> FlowManager_processChunk(o, op.chunk)
      [] op.op = "complete"     -> FlowManager_complete(o)
      [] op.op = "interrupt"    -> FlowManager_interrupt(o)
      [] op.op = "timer"        -> stallCheck(o)

\* the events listener l was called with, in order
HeardBy(l, calls) ==
    LET mine == SelectSeq(calls, LAMBDA c : c.listener = l)
    IN  [i \in 1..Len(mine) |-> mine[i].event]

FMOps == {"start", "processChunk", "complete", "interrupt", "timer"}

\* C23: when an event listener of the FlowManager throws, every other
\* registered listener still receives each event, the exception reaches
\* neither the caller of start/processChunk/complete/interrupt nor the
\* timer, and the session state and stats are those of the same operation
\* on a manager without listeners.
C23_EmitIsolation ==
    [][lastOp'.op \in FMOps =>
          LET r == FMApply(Quiet(fm), lastOp')
          IN  /\ \A l \in FMListeners :
                    includes(fm.listeners, l) => HeardBy(l, heard') = emitted'
              /\ raised' = r.error
              /\ Quiet(fm') = r.self
              /\ fm'.listeners = fm.listeners]_vars

\* a listener threw for an event and a listener registered after it
\* received the event
C23_Witness ==
    \E i, j \in 1..Len(heard) :
        /\ i < j
        /\ throws(heard[i].listener)
        /\ ~throws(heard[j].listener)
        /\ heard[i].event = heard[j].event
        /\ raised = NoError

\* C24: constructing an orchestrator with fillers enabled and an empty
\* filler-phrase list fails with a configuration error, so that no session
\* is ever started with such a configuration: there is no start time and no
\* running wrap() generator.
C24_EmptyPhrasesRejected ==
    (Orch.config.enableFillers /\ Orch.config.fillerPhrases = <<>>) =>
        /\ Orch.startTime = Null
        /\ \A i \in Generators : iters[i].pc = "done"

\* C25: when a stall before the first real unit injected a filler, the
\* sequence returned by wrap() contains that filler ahead of the first real
\* unit: at the step that yields the first real unit the generator has
\* already yielded every filler injected in its session.
C25_FillerInSequence ==
    [][\A i \in Generators :
          ( /\ lastOp'.op = "input" /\ lastOp'.iter = i
            /\ ~fc.firstChunkEmitted
            /\ fc.stats.fillersInjected > 0
            /\ \E k \in 1..Len(emitted') :
                  emitted'[k] = [type |-> "yield", iter |-> i,
                                 chunk |-> lastOp'.chunk] )
          => iters[i].fillers = fc.stats.fillersInjected]_vars

\* the units the last step handed to the consumer of generator i
YieldedTo(i, events) ==
    LET mine == SelectSeq(events, LAMBDA e : e.type = "yield" /\ e.iter = i)
    IN  [k \in 1..Len(mine) |-> mine[k].chunk]

\* C26: an iteration of wrap() that is not interrupted yields exactly the
\* units of its input, each once and in order: every unit the input
\* produces is yielded at once and counted in chunksProcessed, nothing else
\* is yielded or counted while the iteration runs, and when the input is
\* exhausted the state is Idle.
C26_WrapPassesInput ==
    [][\A i \in Generators :
          (suspended(i) /\ ~iters[i].interrupted) =>
             IF lastOp'.op = "input" /\ lastOp'.iter = i
             THEN /\ YieldedTo(i, emitted') = <<lastOp'.chunk>>
                  /\ fc'.stats.chunksProcessed = fc.stats.chunksProcessed + 1
                  /\ raised' = NoError
             ELSE /\ YieldedTo(i, emitted') = <<>>
                  /\ fc'.stats.chunksProcessed = fc.stats.chunksProcessed
                  /\ (lastOp'.op = "inputEnd" /\ lastOp'.iter = i) =>
                        /\ getState(fc'.stateMachine) = IDLE
                        /\ raised' = NoError]_vars

\* the last n elements of a sequence
LastN(seq, n) == SubSeq(seq, Len(seq) - Min(Len(seq), n) + 1, Len(seq))

Fillers(type) ==
    LET evs == SelectSeq(emitted, LAMBDA e : e.type = type)
    IN  [k \in 1..Len(evs) |-> evs[k].filler]

\* C28: given the same input units, stall-timer firings and interrupts, the
\* FlowManager (buffer size 10) and the FlowController are in the same
\* conversation state, have the same chunksProcessed, fillersInjected and
\* stallsDetected and the same buffered units, and have injected the same
\* fillers in the same order.
C28_SameBehaviour ==
    /\ getState(fm.stateMachine) = getState(fc.stateMachine)
    /\ fm.stats.chunksProcessed = fc.stats.chunksProcessed
    /\ fm.stats.fillersInjected = fc.stats.fillersInjected
    /\ fm.stats.stallsDetected = fc.stats.stallsDetected
    /\ getBufferedChunks(fm) = getBufferedChunks(fc)
    /\ Fillers("filler-injected") = Fillers("onFillerInjected")
    /\ timerPending(fm.stallDetector) = timerPending(fc.stallDetector)

\* both have come to the end of an input that stalled before its first
\* unit: a filler was injected and a unit processed
C28_Witness ==
    /\ form = "both"
    /\ lastOp.op = "complete"
    /\ getState(fc.stateMachine) = IDLE
    /\ fc.stats.fillersInjected >= 1
    /\ fc.stats.chunksProcessed >= 1

\* C29: after any sequence of getFiller() and reset() calls on a
\* FillerInjector, 0 <= fillersUsed <= maxFillers and lastFillerIndex is -1
\* or an index of the phrase list; getFiller() returns a phrase exactly when
\* fillersUsed < maxFillers held before the call.
C29_InjectorInvariant ==
    [][Len(returned') > Len(returned) =>
          /\ fillerInjector'.fillersUsed >= 0
          /\ fillerInjector'.fillersUsed <= fillerInjector'.maxFillers
          /\ \/ fillerInjector'.lastFillerIndex = -1
             \/ fillerInjector'.lastFillerIndex \in
                   0..(Len(fillerInjector'.phrases) - 1)
          /\ returned'[Len(returned')].call = "getFiller" =>
                (returned'[Len(returned')].value # Null
                    <=> fillerInjector.fillersUsed < fillerInjector.maxFillers)]_vars

\* the stats the callbacks and listeners of the last operation found
Observed ==
    LET evs == SelectSeq(emitted, LAMBDA e : "observed" \in DOMAIN e)
    IN  {evs[k].observed : k \in 1..Len(evs)}

\* C30: a stall is counted before the filler it triggers: after every
\* operation and inside every listener and callback, fillersInjected <=
\* stallsDetected; with enableFillers = false fillersInjected stays 0 while
\* every reported stall is counted.
C30_StallBeforeFiller ==
    [][/\ Orch'.stats.fillersInjected <= Orch'.stats.stallsDetected
       /\ \A stats \in Observed' : stats.fillersInjected <= stats.stallsDetected
       /\ ~Orch.config.enableFillers =>
             /\ Orch'.stats.fillersInjected = 0
             /\ (Delivered({"stall-detected", "onStallDetected"})' # <<>> =>
                   Orch'.stats.stallsDetected = Orch.stats.stallsDetected + 1)]_vars

C32_InterruptKeepsSession ==
    [][/\ (lastOp'.op = "interrupt" /\ fm.startTime # Null) =>
             fm'.startTime = fm.startTime
       /\ (getState(fm.stateMachine) = INTERRUPTED /\ fm.startTime # Null) =>
             /\ lastOp'.op = "start" =>
                   raised' = "AlreadyStarted" /\ fm' = fm
             /\ lastOp'.op = "complete" =>
                   /\ raised' = NoError
                   /\ fm'.startTime = Null
                   /\ getState(fm'.stateMachine) = INTERRUPTED
             /\ lastOp'.op \in {"processChunk", "interrupt", "timer", "tick"} =>
                   fm'.startTime = fm.startTime
       /\ (getState(fm.stateMachine) = INTERRUPTED /\ fm.startTime = Null) =>
             /\ lastOp'.op = "complete" =>
                   raised' = "NotStarted" /\ fm' = fm
             /\ lastOp'.op = "start" =>
                   /\ raised' = NoError
                   /\ getState(fm'.stateMachine) = WAITING
                   /\ fm'.stats = NewStats
                   /\ fm'.startTime = Some(now)]_vars

\* an interrupted session has been completed
C32_Witness ==
    /\ form = "manager"
    /\ lastOp.op = "complete" /\ raised = NoError
    /\ State = INTERRUPTED
    /\ fm.startTime = Null
    /\ fm.stats.chunksProcessed >= 1

\* C33: once interrupt() takes effect during an iteration of wrap(), the
\* wrapped sequence ends at once, without its input producing another unit
\* or ending: a generator whose consumer is waiting for its first unit has
\* finished when interrupt() returns.
C33_InterruptEndsIteration ==
    [][\A i \in Generators :
          ( /\ lastOp'.op = "interrupt"
            /\ getState(fc.stateMachine) \in {WAITING, SPEAKING}
            /\ iters[i].pc = "awaiting" )
          => iters'[i].pc = "done"]_vars

\* C34: whenever an iteration of wrap() finishes (input exhausted,
\* interrupt, input error, consumer abandoning it) the state is Idle or
\* Interrupted, and a wrap() begun when no iteration is running starts a
\* session in Waiting instead of failing.
C34_ReusableAfterIteration ==
    [][/\ \A i \in Generators :
             (suspended(i) /\ iters'[i].pc = "done") =>
                getState(fc'.stateMachine) \in {IDLE, INTERRUPTED}
       /\ (lastOp'.op = "wrap" /\ \A i \in Generators : ~suspended(i)) =>
             /\ raised' = NoError
             /\ getState(fc'.stateMachine) = WAITING]_vars

\* C35: a wrap() begun while an iteration on the same controller is active
\* (state Waiting or Speaking) fails and leaves the first session untouched:
\* stats, buffer, filler usage and first-unit flag are unchanged, and the
\* first iteration stays where it was.
C35_SecondWrapHarmless ==
    [][( /\ lastOp'.op = "wrap"
         /\ getState(fc.stateMachine) \in {WAITING, SPEAKING}
         /\ \E i \in Generators : suspended(i) ) =>
          /\ raised' # NoError
          /\ fc'.stats = fc.stats
          /\ getBufferedChunks(fc') = getBufferedChunks(fc)
          /\ fc'.fillerInjector = fc.fillerInjector
          /\ fc'.firstChunkEmitted = fc.firstChunkEmitted
          /\ getState(fc'.stateMachine) = getState(fc.stateMachine)
          /\ \A i \in Generators : suspended(i) => iters'[i] = iters[i]]_vars

\* C36: an iteration of wrap() that was interrupted yields no further unit
\* and changes neither the counters, the buffer nor the state when it takes
\* its next step, also when a new wrap() was begun in between.
C36_InterruptedStaysDead ==
    [][\A i \in Generators :
          ( /\ suspended(i) /\ iters[i].interrupted
            /\ lastOp'.op \in {"input", "inputEnd"}
            /\ lastOp'.iter = i ) =>
          /\ YieldedTo(i, emitted') = <<>>
          /\ fc'.stats.chunksProcessed = fc.stats.chunksProcessed
          /\ fc'.stats.fillersInjected = fc.stats.fillersInjected
          /\ fc'.stats.stallsDetected = fc.stats.stallsDetected
          /\ fc'.stats.firstChunkTime = fc.stats.firstChunkTime
          /\ getBufferedChunks(fc') = getBufferedChunks(fc)
          /\ getState(fc'.stateMachine) = getState(fc.stateMachine)]_vars

\* C37: in every reachable state of the FlowManager, no session active
\* implies state Idle or Interrupted, a session active implies state
\* Waiting, Speaking or Interrupted, and no operation has raised an
\* invalid-transition error.
C37_Lifecycle ==
    form = "manager" =>
       /\ fm.startTime = Null => getState(fm.stateMachine) \in {IDLE, INTERRUPTED}
       /\ fm.startTime # Null =>
             getState(fm.stateMachine) \in {WAITING, SPEAKING, INTERRUPTED}
       /\ raised # "InvalidTransition"

\* a session that stalled has taken its first unit
C37_Witness ==
    /\ form = "manager"
    /\ lastOp.op = "processChunk" /\ raised = NoError
    /\ fm.startTime # Null
    /\ State = SPEAKING
    /\ fm.stats.chunksProcessed = 1
    /\ fm.stats.stallsDetected >= 1

\* C38: the FlowManager's stats are consistent after every operation:
\* chunksProcessed >= 1 exactly when firstChunkTime is non-null, Waiting
\* implies chunksProcessed = 0, Speaking implies chunksProcessed >= 1;
\* chunksProcessed grows by one with each chunk-processed event, the
\* counters never decrease within a session and only start() zeroes them.
C38_StatsConsistent ==
    [][lastOp'.op \in FMOps =>
          /\ (fm'.stats.chunksProcessed >= 1) <=> (fm'.stats.firstChunkTime # Null)
          /\ getState(fm'.stateMachine) = WAITING => fm'.stats.chunksProcessed = 0
          /\ getState(fm'.stateMachine) = SPEAKING => fm'.stats.chunksProcessed >= 1
          /\ IF lastOp'.op = "start" /\ raised' = NoError
             THEN fm'.stats = NewStats
             ELSE /\ fm'.stats.chunksProcessed =
                        fm.stats.chunksProcessed
                           + Len(Delivered({"chunk-processed"})')
                  /\ fm'.stats.stallsDetected >= fm.stats.stallsDetected
                  /\ fm'.stats.fillersInjected >= fm.stats.fillersInjected
                  /\ fm'.stats.firstChunkTime # fm.stats.firstChunkTime =>
                        fm.stats.firstChunkTime = Null]_vars

\* a session with two units, a stall and a filler has been interrupted and
\* keeps its counters
C38_Witness ==
    /\ form = "manager"
    /\ lastOp.op = "interrupt"
    /\ State = INTERRUPTED
    /\ fm.stats.chunksProcessed = 2
    /\ fm.stats.stallsDetected >= 1
    /\ fm.stats.fillersInjected >= 1

\* C39: a successful complete() emits exactly one completed event, after
\* the state-change of its own transition, carrying the stats getStats()
\* returns then; after it no event is delivered, by a call or by the timer
\* (none is pending), until the next start().
C39_CompletedIsLast ==
    [][lastOp'.op \in FMOps \cup {"tick"} =>
          /\ (lastOp'.op = "complete" /\ raised' = NoError) =>
                emitted' =
                   (IF getState(fm.stateMachine) # getState(fm'.stateMachine)
                    THEN <<[type |-> "state-change",
                            from |-> getState(fm.stateMachine), to |-> IDLE]>>
                    ELSE <<>>)
                   \o <<[type |-> "completed", stats |-> getStats(fm')]>>
          /\ ~(lastOp'.op = "complete" /\ raised' = NoError) =>
                Delivered({"completed"})' = <<>>
          /\ fm'.startTime = Null => ~timerPending(fm'.stallDetector)
          /\ fm.startTime = Null => emitted' = <<>>]_vars

\* a session with a stall and two units has been completed
C39_Witness ==
    /\ form = "manager"
    /\ lastOp.op = "complete"
    /\ Len(emitted) = 2
    /\ emitted[1].type = "state-change"
    /\ emitted[2] = [type |-> "completed", stats |-> getStats(fm)]
    /\ fm.stats.chunksProcessed = 2
    /\ fm.stats.stallsDetected >= 1
    /\ fm.stats.totalDurationMs >= 2

\* C40: every way an iteration of wrap() ends (input exhausted, interrupt,
\* input error, consumer abandoning it) stops the stall detector; while no
\* iteration is running no timeout is pending, no onStallDetected or
\* onFillerInjected is called, and stallsDetected and fillersInjected change
\* only by the reset of the next wrap().
C40_DetectorStoppedOnExit ==
    [][form = "controller" =>
          /\ \A i \in Generators :
                (suspended(i) /\ iters'[i].pc = "done") =>
                   /\ ~timerPending(fc'.stallDetector)
                   /\ fc'.stallDetector.lastChunkTime = Null
          /\ (\A i \in Generators : ~suspended(i)) =>
                /\ ~timerPending(fc.stallDetector)
                /\ Delivered({"onStallDetected", "onFillerInjected"})' = <<>>
                /\ lastOp'.op # "wrap" =>
                      /\ fc'.stats.stallsDetected = fc.stats.stallsDetected
                      /\ fc'.stats.fillersInjected = fc.stats.fillersInjected]_vars

\* an iteration that stalled and injected a filler has ended by an input
\* error, and no timeout is pending
C40_Witness ==
    /\ form = "controller"
    /\ lastOp.op = "inputError"
    /\ \A i \in Generators : ~suspended(i)
    /\ fc.stats.stallsDetected >= 1
    /\ fc.stats.fillersInjected >= 1
    /\ ~timerPending(fc.stallDetector)

====
